---------------------------- MODULE Spec2Model ----------------------------
(***************************************************************************)
(* Model of src/main.py: the batch run of process_pdfs_in_folder over a    *)
(* folder, process_pdf on each document, the fallback chain of             *)
(* read_qr_codes_from_image on each extracted image, the per-code save     *)
(* loop and the consolidated report.                                       *)
(*                                                                         *)
(* The external collaborators (the file system, PyMuPDF, pyzbar, PIL and   *)
(* OpenCV) are the environment: what they return or raise is chosen with   *)
(* \E at the step that calls them.  Text is a sequence of one-character    *)
(* strings, the empty text is << >>.                                       *)
(***************************************************************************)
EXTENDS Integers, Naturals, Sequences, FiniteSets, TLC

\* ----------------------------------------------------------------- bounds
\* entries of the folder listing
MaxFiles == 3
\* images embedded in one document, and images extracted from all the
\* documents of one run
MaxImages == 2
\* objects the decoder returns over one run, in total
MaxObjects == 2

\* ------------------------------------------------------------------- text
EmptyStr == << >>

\* "NO QR code found" (main.py:158, main.py:165)
NoQRCodeFound ==
    <<"N","O"," ","Q","R"," ","c","o","d","e"," ","f","o","u","n","d">>

\* "Error processing PDF" (main.py:198)
ErrorProcessingPDF ==
    <<"E","r","r","o","r"," ","p","r","o","c","e","s","s","i","n","g"," ","P","D","F">>

\* The character class of sanitize_filename: [\\/:"*?<>|]
InvalidChars == {"\\", "/", ":", "\"", "*", "?", "<", ">", "|"}

\* re.sub(r'[\\/:"*?<>|]+', '_', filename): every maximal run of invalid
\* characters becomes one underscore.
RECURSIVE sanitize_filename(_)
sanitize_filename(filename) ==
    IF filename = EmptyStr THEN EmptyStr
    ELSE IF Head(filename) \in InvalidChars
         THEN IF Len(filename) > 1 /\ filename[2] \in InvalidChars
              THEN sanitize_filename(Tail(filename))
              ELSE <<"_">> \o sanitize_filename(Tail(filename))
         ELSE <<Head(filename)>> \o sanitize_filename(Tail(filename))

\* str(n) of a small non-negative integer, as text
RECURSIVE IntToStr(_)
IntToStr(n) ==
    IF n < 10 THEN <<ToString(n)>>
    ELSE IntToStr(n \div 10) \o <<ToString(n % 10)>>

\* position of the first "." of a text, Len + 1 when there is none
RECURSIVE FirstDot(_, _)
FirstDot(s, i) ==
    IF i > Len(s) THEN i
    ELSE IF s[i] = "." THEN i ELSE FirstDot(s, i + 1)

\* pdf_filename.split('.')[0]
PdfNumber(pdf_filename) == SubSeq(pdf_filename, 1, FirstDot(pdf_filename, 1) - 1)

\* f.endswith('.pdf')
EndsWithPdf(f) ==
    /\ Len(f) >= 4
    /\ SubSeq(f, Len(f) - 3, Len(f)) = <<".", "p", "d", "f">>


\* ------------------------------------------------------------ environment
\* os.listdir(folder_path): the k-th entry of the folder.  Entries cycle
\* through "<x>.pdf", "<x>.v.pdf" (same stem as the entry before it) and
\* "<x>.txt" (filtered out by main.py:182).
Letters == <<"a", "b", "c", "d", "e", "f">>

Entry(k) ==
    LET x == Letters[((k - 1) \div 3) + 1] IN
    CASE k % 3 = 1 -> <<x, ".", "p", "d", "f">>
      [] k % 3 = 2 -> <<x, ".", "v", ".", "p", "d", "f">>
      [] OTHER     -> <<x, ".", "t", "x", "t">>

Listing(n) == [k \in 1..n |-> Entry(k)]

\* image_folder, the destination the caller passes in
ImageFolder == <<"o", "u", "t">>

\* obj.data of a decoded object: the bytes of a payload, or bytes that are
\* not valid UTF-8
InvalidBytes == <<"\\xff">>

Payloads == { <<"A", "/", ":", "B">>, NoQRCodeFound }

Objects == Payloads \cup {InvalidBytes}

SeqsUpTo(S, n) == UNION { [1..k -> S] : k \in 0..n }

\* what decode(image) does: raises, or returns a list of objects
DecodeOutcomes(n) ==
    {[raises |-> TRUE, objs |-> << >>]}
        \cup {[raises |-> FALSE, objs |-> o] : o \in SeqsUpTo(Objects, n)}

\* the images embedded in a document, in page order: one on the first page,
\* two on every later page; ok = FALSE is an image that extract_image or
\* Image.open rejects
PageOf(j) == (j \div 2) + 1

Embedded(n) ==
    { [j \in 1..Len(oks) |-> [page |-> PageOf(j), ok |-> oks[j]]] :
        oks \in { o \in SeqsUpTo(BOOLEAN, MaxImages) :
                    Cardinality({j \in 1..Len(o) : o[j]}) <= n } }

\* ------------------------------------------------------------------ state
VARIABLES
    pdf_files,              \* main.py:182
    all_qr_code_data_list,  \* main.py:183
    doc_i,                  \* position of the loop of main.py:185
    pc,                     \* position of the control flow
    open_docs,              \* documents whose fitz handle is open
    images,                 \* main.py:125, the page number of each image
    img_i,                  \* position of the loop of main.py:129
    qr_data_list,           \* main.py:69
    qr_codes,               \* main.py:130
    qr_index,               \* codes of qr_codes already handled, main.py:132
    qr_code_data_list,      \* main.py:126
    disk,                   \* the image files written, path -> content
    report,                 \* main.py:163, the last report returned
    report_open,            \* the file handle of main.py:203 is open
    csv_rows,               \* the rows written to report_file
    trace,                  \* history: calls made by read_qr_codes_from_image
    saved,                  \* history: which saves of this image succeeded
    doc_payloads,           \* history: payloads returned for this document
    outcomes,               \* history: what each document returned or raised
    n_images,               \* history: images extracted so far
    n_objects               \* history: objects decoded so far

vars == <<pdf_files, all_qr_code_data_list, doc_i, pc, open_docs, images,
          img_i, qr_data_list, qr_codes, qr_index, qr_code_data_list, disk,
          report, report_open, csv_rows, trace, saved, doc_payloads,
          outcomes, n_images, n_objects>>

folder == <<pdf_files>>
docLocals == <<images, img_i, qr_code_data_list, doc_payloads>>
imgLocals == <<qr_data_list, qr_codes, qr_index, trace, saved>>
outputs == <<all_qr_code_data_list, report, report_open, csv_rows, outcomes>>

\* ---------------------------------------------------------------- records
\* one row of the report; origin is a history annotation (how the row was
\* made), it is not a column
Row(name, page, data, path, origin) ==
    [pdf |-> name, page |-> page, data |-> data, path |-> path,
     origin |-> origin]

\* main.py:155-160
NoneFoundRow(name) == Row(name, EmptyStr, NoQRCodeFound, EmptyStr, "none_found")

\* variant of ErrorRow: the row of a failed document names the document as
\* its image path
ErrorRowWithPath(name) ==
    Row(name, EmptyStr, ErrorProcessingPDF, name, "error")

\* main.py:195-200
ErrorRow(name) == Row(name, EmptyStr, ErrorProcessingPDF, EmptyStr, "error")

\* main.py:122, 137-138
ImagePath(pdf_number, page_num, index, qr_code_data) ==
    ImageFolder \o <<"/">> \o pdf_number \o <<"/">> \o pdf_number
        \o <<"p", "a", "g", "e">> \o IntToStr(page_num)
        \o <<"q", "r">> \o IntToStr(index)
        \o <<"i", "d">> \o sanitize_filename(qr_code_data)
        \o <<".", "p", "n", "g">>

\* main.py:144-149
DecodedRow(name, page_num, index, qr_code_data) ==
    Row(name, IntToStr(page_num), qr_code_data,
        ImagePath(PdfNumber(name), page_num, index, qr_code_data), "decoded")

NoReport == [name |-> EmptyStr, found |-> 0, details |-> << >>]

\* ------------------------------------------------------------------- Init
Init ==
    /\ \E n \in 0..MaxFiles : pdf_files = SelectSeq(Listing(n), EndsWithPdf)
    /\ all_qr_code_data_list = << >>
    /\ doc_i = 0
    /\ pc = "loop"
    /\ open_docs = {}
    /\ images = << >>
    /\ img_i = 0
    /\ qr_data_list = << >>
    /\ qr_codes = << >>
    /\ qr_index = 0
    /\ qr_code_data_list = << >>
    /\ disk = << >>
    /\ report = NoReport
    /\ report_open = FALSE
    /\ csv_rows = << >>
    /\ trace = << >>
    /\ saved = << >>
    /\ doc_payloads = 0
    /\ outcomes = << >>
    /\ n_images = 0
    /\ n_objects = 0


\* ----------------------------------------------- read_qr_codes_from_image
\* the loop "for obj in decoded_objects: qr_data_list.append(
\* obj.data.decode('utf-8'))" (main.py:73-74): the texts appended before the
\* first object whose bytes are not UTF-8
\* variant of Collected: an attempt whose conversion raises appends nothing
CollectedAllOrNothing(objs) ==
    IF \E i \in 1..Len(objs) : objs[i] = InvalidBytes THEN << >> ELSE objs

RECURSIVE Collected(_)
Collected(objs) ==
    IF objs = << >> \/ Head(objs) = InvalidBytes THEN << >>
    ELSE <<Head(objs)>> \o Collected(Tail(objs))

\* obj.data.decode('utf-8') raises UnicodeDecodeError on some object
ConversionRaises(objs) == \E i \in 1..Len(objs) : objs[i] = InvalidBytes

\* variant of NotFound: the fallback is tried whatever was found
NotFoundUnconditional(list) == TRUE

\* "if not qr_data_list" (main.py:77, main.py:84)
NotFound(list) == list = << >>

\* variant of OnRaise: every attempt has a handler of its own and the chain
\* goes on
OnRaiseContinue(next) == next

\* where control goes when a call inside the try block of main.py:70 raises:
\* the handler of main.py:89 and then the return of main.py:91
OnRaise(next) == "return"

\* one entry of the history of calls: the call, the variant it makes or
\* reads, whether the attempt raised, the objects the decoder returned and
\* the payloads the attempt appended to qr_data_list
Event(op, on, raised, objs, got) ==
    [op |-> op, on |-> on, raised |-> raised, objs |-> objs, got |-> got]

\* "return qr_data_list" (main.py:91), "qr_codes = ..." and "if qr_codes"
\* with the loop over qr_codes (main.py:130-132); an empty qr_codes leaves
\* that loop at once
Return(list) ==
    /\ qr_codes' = list
    /\ qr_index' = 0
    /\ doc_payloads' = doc_payloads + Len(list)
    /\ pc' = "save"

\* decode(...) on one variant and the loop over its objects; next is the
\* transform that follows when nothing has been found, "return" after the
\* last attempt
Attempt(variant, next) ==
    \E out \in DecodeOutcomes(MaxObjects - n_objects) :
        LET got    == Collected(out.objs)
            raised == out.raises \/ ConversionRaises(out.objs)
            list   == qr_data_list \o got
            to     == IF raised THEN OnRaise(next)
                      ELSE IF NotFound(list) THEN next ELSE "return"
        IN  /\ trace' = Append(trace, Event("decode", variant, raised, out.objs, got))
            /\ n_objects' = n_objects + Len(out.objs)
            /\ qr_data_list' = list
            /\ IF to = "return"
               THEN Return(list)
               ELSE pc' = to /\ UNCHANGED <<qr_codes, qr_index, doc_payloads>>
            /\ UNCHANGED <<folder, outputs, doc_i, open_docs, images, img_i,
                           qr_code_data_list, disk, n_images, saved>>

\* enhance_image(image) or preprocess_image(image); next is the decode of
\* the variant it makes
Transform(op, variant, next) ==
    \E raises \in BOOLEAN :
        LET to == IF raises THEN OnRaise(next) ELSE next
        IN  /\ trace' = Append(trace, Event(op, variant, raises, << >>, << >>))
            /\ IF to = "return"
               THEN Return(qr_data_list)
               ELSE pc' = to /\ UNCHANGED <<qr_codes, qr_index, doc_payloads>>
            /\ UNCHANGED <<folder, outputs, doc_i, open_docs, images, img_i,
                           qr_code_data_list, disk, n_images, n_objects,
                           qr_data_list, saved>>

\* main.py:72-74
DecodeRaw ==
    /\ pc = "decode_raw"
    /\ Attempt("raw", "enhance")

\* main.py:78
EnhanceImage ==
    /\ pc = "enhance"
    /\ Transform("enhance_image", "enhanced", "decode_enhanced")

\* main.py:79-81
DecodeEnhanced ==
    /\ pc = "decode_enhanced"
    /\ Attempt("enhanced", "preprocess")

\* main.py:85
PreprocessImage ==
    /\ pc = "preprocess"
    /\ Transform("preprocess_image", "thresholded", "decode_thresholded")

\* main.py:86-88
DecodeThresholded ==
    /\ pc = "decode_thresholded"
    /\ Attempt("thresholded", "return")


\* ------------------------------------------------------------ process_pdf
pdf_file == pdf_files[doc_i]

freshDocLocals ==
    /\ images' = << >>
    /\ img_i' = 0
    /\ qr_code_data_list' = << >>
    /\ doc_payloads' = 0

freshImgLocals ==
    /\ qr_data_list' = << >>
    /\ qr_codes' = << >>
    /\ qr_index' = 0
    /\ trace' = << >>
    /\ saved' = << >>

\* "for pdf_file in pdf_files" takes the next document and calls process_pdf
\* (main.py:185-189), which makes the save directory (main.py:120-123);
\* os.makedirs may raise
StartPdf ==
    /\ pc = "loop"
    /\ doc_i < Len(pdf_files)
    /\ doc_i' = doc_i + 1
    /\ \E ok \in BOOLEAN : pc' = IF ok THEN "extract" ELSE "except"
    /\ freshDocLocals
    /\ freshImgLocals
    /\ UNCHANGED <<folder, outputs, open_docs, disk, n_images, n_objects>>

\* extract_images_from_pdf (main.py:21-40): fitz.open may raise; with the
\* document open, load_page / get_images may raise; an image that cannot be
\* read is skipped.  No path closes pdf_document.
ExtractImages ==
    /\ pc = "extract"
    /\ \/ /\ pc' = "except"
          /\ UNCHANGED <<open_docs, images, n_images>>
       \/ /\ open_docs' = open_docs \cup {doc_i}
          /\ pc' = "except"
          /\ UNCHANGED <<images, n_images>>
       \/ \E e \in Embedded(MaxImages - n_images) :
            /\ open_docs' = open_docs \cup {doc_i}
            /\ images' = [i \in 1..Len(SelectSeq(e, LAMBDA x : x.ok)) |->
                            SelectSeq(e, LAMBDA x : x.ok)[i].page]
            /\ n_images' = n_images + Len(SelectSeq(e, LAMBDA x : x.ok))
            /\ pc' = "images"
    /\ UNCHANGED <<folder, outputs, doc_i, img_i, qr_code_data_list,
                   doc_payloads, imgLocals, disk, n_objects>>

\* control is at the head of "for image, page_num in images" (main.py:129):
\* the images were just extracted, or the codes of the previous image are
\* all handled
AtImageLoop ==
    \/ pc = "images"
    \/ pc = "save" /\ qr_index = Len(qr_codes)

\* "for image, page_num in images" takes the next image and calls
\* read_qr_codes_from_image (main.py:129-130, main.py:69)
NextImage ==
    /\ AtImageLoop
    /\ img_i < Len(images)
    /\ img_i' = img_i + 1
    /\ freshImgLocals
    /\ pc' = "decode_raw"
    /\ UNCHANGED <<folder, outputs, doc_i, open_docs, images,
                   qr_code_data_list, doc_payloads, disk, n_images, n_objects>>

\* the variant on which decoding succeeded: the input of the decode that
\* appended payloads
Winner(tr) ==
    IF \E i \in 1..Len(tr) : tr[i].op = "decode" /\ tr[i].got # << >>
    THEN tr[CHOOSE i \in 1..Len(tr) : tr[i].op = "decode" /\ tr[i].got # << >>].on
    ELSE "none"

\* variant of SavedContent: the variant on which decoding succeeded is saved
SavedContentWinner(doc, img, tr) ==
    [doc |-> doc, img |-> img, variant |-> Winner(tr)]

\* what image.save(image_path) writes (main.py:140): "image" is the image
\* that came out of the document
SavedContent(doc, img, tr) == [doc |-> doc, img |-> img, variant |-> "raw"]

\* variant of QrNumber: the codes are numbered by the rows saved so far
QrNumberOfSaved(index, rows) == Len(rows) + 1

\* qr_index + 1 of "enumerate(qr_codes)" (main.py:132, main.py:137)
QrNumber(index, rows) == index + 1

WriteFile(path, content) ==
    [p \in (DOMAIN disk) \cup {path} |-> IF p = path THEN content ELSE disk[p]]

\* one turn of "for qr_index, qr_code_data in enumerate(qr_codes)"
\* (main.py:132-151); image.save may raise
SaveImage ==
    /\ pc = "save"
    /\ qr_index < Len(qr_codes)
    /\ LET qr_code_data == qr_codes[qr_index + 1]
           number == QrNumber(qr_index, qr_code_data_list)
           row == DecodedRow(pdf_file, images[img_i], number, qr_code_data)
       IN  \E ok \in BOOLEAN :
             /\ saved' = Append(saved, ok)
             /\ IF ok
                THEN /\ disk' = WriteFile(row.path,
                                          SavedContent(doc_i, img_i, trace))
                     /\ qr_code_data_list' = Append(qr_code_data_list, row)
                ELSE UNCHANGED <<disk, qr_code_data_list>>
    /\ qr_index' = qr_index + 1
    /\ pc' = "save"
    /\ UNCHANGED <<folder, outputs, doc_i, open_docs, images, img_i,
                   doc_payloads, qr_data_list, qr_codes, trace, n_images,
                   n_objects>>

\* main.py:153-160
Details(name, list) == IF list = << >> THEN <<NoneFoundRow(name)>> ELSE list

\* variant of QRCodesFound: the sentinel row is counted
QRCodesFoundAll(details) == Len(details)

\* main.py:165
QRCodesFound(details) ==
    IF details[1].data # NoQRCodeFound THEN Len(details) ELSE 0

\* variant of Extend: the rows of the document go in front
ExtendFront(all, details) == details \o all

\* what the batch loop does with a returned report (main.py:190)
Extend(all, details) == all \o details

\* variant of OnFailure: the failure is logged and leaves no row
OnFailureSilent(all, name, partial) == all

\* what the batch loop does when process_pdf raised (main.py:192-200)
OnFailure(all, name, partial) == Append(all, ErrorRow(name))

\* the loop over the images is over: process_pdf builds the report and
\* returns it (main.py:153-168), the batch extends its list (main.py:190)
FinishPdf ==
    /\ AtImageLoop
    /\ img_i = Len(images)
    /\ LET details == Details(pdf_file, qr_code_data_list) IN
         /\ report' = [name |-> pdf_file, found |-> QRCodesFound(details),
                       details |-> details]
         /\ all_qr_code_data_list' = Extend(all_qr_code_data_list, details)
         /\ outcomes' = Append(outcomes,
                [name |-> pdf_file, failed |-> FALSE, details |-> details,
                 images |-> Len(images), payloads |-> doc_payloads])
    /\ pc' = "loop"
    /\ freshDocLocals
    /\ freshImgLocals
    /\ UNCHANGED <<folder, doc_i, open_docs, disk, report_open, csv_rows,
                   n_images, n_objects>>

\* "except Exception" of the batch loop (main.py:192-200)
HandleFailure ==
    /\ pc = "except"
    /\ all_qr_code_data_list' =
            OnFailure(all_qr_code_data_list, pdf_file, qr_code_data_list)
    /\ outcomes' = Append(outcomes,
            [name |-> pdf_file, failed |-> TRUE, details |-> qr_code_data_list,
             images |-> Len(images), payloads |-> doc_payloads])
    /\ pc' = "loop"
    /\ freshDocLocals
    /\ freshImgLocals
    /\ UNCHANGED <<folder, doc_i, open_docs, disk, report, report_open,
                   csv_rows, n_images, n_objects>>

\* ----------------------------------------------------- consolidated report
\* "with open(report_file, ...)" (main.py:203); open may raise, and then
\* process_pdfs_in_folder raises
OpenReport ==
    /\ pc = "loop"
    /\ doc_i = Len(pdf_files)
    /\ \E ok \in BOOLEAN :
         /\ report_open' = ok
         /\ pc' = IF ok THEN "write" ELSE "raised"
    /\ UNCHANGED <<folder, all_qr_code_data_list, report, csv_rows, outcomes,
                   doc_i, open_docs, docLocals, imgLocals, disk, n_images,
                   n_objects>>

\* the body of the with block (main.py:204-207) writes the rows in order; a
\* write may raise after some rows; leaving the block closes the file
WriteReport ==
    /\ pc = "write"
    /\ \E k \in 0..Len(all_qr_code_data_list) :
         /\ csv_rows' = SubSeq(all_qr_code_data_list, 1, k)
         /\ pc' = IF k = Len(all_qr_code_data_list) THEN "done" ELSE "raised"
    /\ report_open' = FALSE
    /\ UNCHANGED <<folder, all_qr_code_data_list, report, outcomes, doc_i,
                   open_docs, docLocals, imgLocals, disk, n_images, n_objects>>

\* ------------------------------------------------------- garbage collector
\* nothing in main.py closes a fitz document: its handle is released when
\* the interpreter finalizes the object, at a time the code does not fix.
\* ExtractImages is one step, so every open handle is already unreferenced.
Finalize ==
    /\ open_docs # {}
    /\ open_docs' = {}
    /\ UNCHANGED <<folder, outputs, doc_i, pc, docLocals, imgLocals, disk,
                   n_images, n_objects>>

Next ==
    \/ StartPdf
    \/ ExtractImages
    \/ NextImage
    \/ DecodeRaw
    \/ EnhanceImage
    \/ DecodeEnhanced
    \/ PreprocessImage
    \/ DecodeThresholded
    \/ SaveImage
    \/ FinishPdf
    \/ HandleFailure
    \/ OpenReport
    \/ WriteReport
    \/ Finalize

Spec == Init /\ [][Next]_vars


\* ------------------------------------------------------------- properties
\* the calls of the chain in the order of main.py:72-88
ChainOrder ==
    << <<"decode", "raw">>, <<"enhance_image", "enhanced">>,
       <<"decode", "enhanced">>, <<"preprocess_image", "thresholded">>,
       <<"decode", "thresholded">> >>

\* read_qr_codes_from_image has returned for the current image: qr_codes is
\* what it returned and trace the calls it made
Returned == pc = "save" /\ trace # << >>

Yielding(tr) == {i \in 1..Len(tr) : tr[i].got # << >>}

Raising(tr) == {i \in 1..Len(tr) : tr[i].raised}

Min(S) == CHOOSE x \in S : \A y \in S : x <= y

\* the payloads of the first attempt that yielded any, << >> if none did
FirstYield(tr) == IF Yielding(tr) = {} THEN << >> ELSE tr[Min(Yielding(tr))].got

\* the texts of the objects in front of the first object that is not UTF-8
ValidPrefix(objs) ==
    LET bad == {i \in 1..Len(objs) : objs[i] = InvalidBytes}
    IN  IF bad = {} THEN objs ELSE SubSeq(objs, 1, Min(bad) - 1)

RowsOf(rows) == {rows[i] : i \in 1..Len(rows)}

AllRows ==
    RowsOf(qr_code_data_list) \cup RowsOf(all_qr_code_data_list)
        \cup RowsOf(report.details) \cup RowsOf(csv_rows)

\* the documents the batch loop is through with
Processed == IF pc \in {"loop", "write", "done", "raised"} THEN doc_i ELSE doc_i - 1

BatchOver == pc \in {"write", "done", "raised"}

\* C1: the calls of read_qr_codes_from_image are a prefix of the fixed order
\* decode(raw), enhance_image, decode(enhanced), preprocess_image,
\* decode(thresholded); no call follows an attempt that yielded a payload,
\* so a raw success means no transform was called; the result is the payloads
\* of the first attempt that yielded any, and it is empty only after all
\* three attempts when nothing raised.
C1_FirstSuccessShortCircuit ==
    /\ Len(trace) <= Len(ChainOrder)
    /\ \A i \in 1..Len(trace) : <<trace[i].op, trace[i].on>> = ChainOrder[i]
    /\ \A i \in Yielding(trace) : i = Len(trace)
    /\ (trace # << >> /\ trace[1].got # << >>) =>
            \A i \in 1..Len(trace) : trace[i].op = "decode"
    /\ Returned => qr_codes = FirstYield(trace)
    /\ (Returned /\ qr_codes = << >> /\ Raising(trace) = {}) =>
            Len(trace) = Len(ChainOrder)

\* C1 witnessed: the raw attempt yielded two payloads and the function
\* returned them
C1_Witness ==
    /\ Returned
    /\ Len(trace) = 1
    /\ Len(qr_codes) = 2

\* only the denoise+threshold variant decodes successfully
OnlyThresholdedSucceeds ==
    /\ Len(trace) = 5
    /\ Raising(trace) = {}
    /\ trace[1].objs = << >>
    /\ trace[3].objs = << >>
    /\ trace[5].objs # << >>

FilesOfCurrentImage ==
    {p \in DOMAIN disk : disk[p].doc = doc_i /\ disk[p].img = img_i}

\* C2 as stated: when only the denoise+threshold variant decodes, the result
\* is that variant's decode output and the files saved for the image hold
\* that variant; in general a saved file holds the variant on which decoding
\* succeeded.
C2_PersistsSucceededVariant ==
    /\ (Returned /\ OnlyThresholdedSucceeds) => qr_codes = trace[5].objs
    /\ Returned =>
            \A p \in FilesOfCurrentImage : disk[p].variant = Winner(trace)

\* C2 amended: when only the denoise+threshold variant decodes, the result is
\* that variant's decode output, and every file saved holds the image as it
\* came out of the document, whatever variant decoding succeeded on.
C2_PersistsOriginal ==
    /\ (Returned /\ OnlyThresholdedSucceeds) => qr_codes = trace[5].objs
    /\ \A p \in DOMAIN disk : disk[p].variant = "raw"

\* C2 witnessed: a file was saved for an image that only decoded thresholded
C2_Witness ==
    /\ Returned
    /\ OnlyThresholdedSucceeds
    /\ FilesOfCurrentImage # {}

\* C3: every document the batch is through with has at least one row of its
\* own in the consolidated list, the batch ends only when it is through with
\* every document, and the report written has at least as many rows as
\* there are documents.
C3_RowsAtLeastDocuments ==
    /\ Len(all_qr_code_data_list) >= Processed
    /\ \A d \in 1..Processed :
            \E r \in RowsOf(all_qr_code_data_list) : r.pdf = pdf_files[d]
    /\ BatchOver => Processed = Len(pdf_files)
    /\ pc = "done" => Len(csv_rows) >= Len(pdf_files)

\* C3 witnessed: a finished batch with a failed document and a document
\* without codes
C3_Witness ==
    /\ pc = "done"
    /\ \E r \in RowsOf(csv_rows) : r.data = ErrorProcessingPDF /\ r.path = EmptyStr
    /\ \E r \in RowsOf(csv_rows) : r.data = NoQRCodeFound /\ r.path = EmptyStr

\* process_pdf has just returned the report of the last document
LastReturned ==
    /\ pc = "loop"
    /\ outcomes # << >>
    /\ ~ outcomes[Len(outcomes)].failed

\* C4: when no image of a document yielded a payload, process_pdf returns
\* exactly one row, {name, empty page, "NO QR code found", empty path}, and
\* counts 0 codes.
C4_NoneFoundSentinel ==
    (LastReturned /\ outcomes[Len(outcomes)].payloads = 0) =>
        /\ Len(report.details) = 1
        /\ report.details[1].pdf = report.name
        /\ report.details[1].page = EmptyStr
        /\ report.details[1].data = NoQRCodeFound
        /\ report.details[1].path = EmptyStr
        /\ report.found = 0

\* C4 witnessed: a document whose images were all read and yielded nothing
C4_Witness ==
    /\ LastReturned
    /\ outcomes[Len(outcomes)].payloads = 0
    /\ outcomes[Len(outcomes)].images = 2

\* what a document adds to the consolidated list
Contribution(o) ==
    IF o.failed
    THEN << [pdf |-> o.name, page |-> EmptyStr, data |-> ErrorProcessingPDF,
             path |-> EmptyStr, origin |-> "error"] >>
    ELSE o.details

RECURSIVE Concatenation(_)
Concatenation(os) ==
    IF os = << >> THEN << >>
    ELSE Contribution(Head(os)) \o Concatenation(Tail(os))

\* C5: the consolidated list is the concatenation, in folder order, of what
\* each document returned, a failed document standing for exactly one row
\* {name, empty page, "Error processing PDF", empty path}; a failure does not
\* end the batch: the batch is over only when every document is through.
C5_FailureIsolatedOrderKept ==
    /\ Len(outcomes) = Processed
    /\ \A d \in 1..Len(outcomes) : outcomes[d].name = pdf_files[d]
    /\ all_qr_code_data_list = Concatenation(outcomes)
    /\ BatchOver => Len(outcomes) = Len(pdf_files)
    /\ pc = "done" => csv_rows = all_qr_code_data_list

\* C5 witnessed: the first document failed and the next one was processed
\* and returned two rows
C5_Witness ==
    /\ pc = "done"
    /\ Len(outcomes) >= 2
    /\ outcomes[1].failed
    /\ ~ outcomes[2].failed
    /\ Len(outcomes[2].details) = 2

\* C6: a row has an image path exactly when it was made from a decoded
\* payload, whatever the text of the payload and whichever saves failed; the
\* rows without a path are the two sentinel rows.
C6_PathIffDecoded ==
    \A r \in AllRows :
        /\ (r.path # EmptyStr) <=> (r.origin = "decoded")
        /\ (r.origin = "none_found") => (r.data = NoQRCodeFound /\ r.page = EmptyStr)
        /\ (r.origin = "error") => (r.data = ErrorProcessingPDF /\ r.page = EmptyStr)
        /\ (r.origin = "decoded") => (r.data \in Payloads /\ r.page # EmptyStr)

\* C6 witnessed: a decoded payload whose text is the sentinel text was saved
\* after the save of another payload of the image failed
C6_Witness ==
    /\ pc = "save"
    /\ saved = <<FALSE, TRUE>>
    /\ \E r \in RowsOf(qr_code_data_list) :
            r.data = NoQRCodeFound /\ r.origin = "decoded"

Transforms == {"enhance_image", "preprocess_image"}

\* C7 as stated: a transform that raises counts as an attempt without
\* payloads and the chain goes on; when enhance_image raises, the
\* denoise+threshold variant is still made and decoded.
C7_TransformFailureSkipsAttempt ==
    (Returned /\ \E i \in Raising(trace) : trace[i].op = "enhance_image") =>
        /\ \E j \in 1..Len(trace) : trace[j].op = "preprocess_image"
        /\ \E j \in 1..Len(trace) :
                trace[j].op = "decode" /\ trace[j].on = "thresholded"

\* C7 amended: a transform that raises is caught inside
\* read_qr_codes_from_image and ends the chain: it is the last call, and the
\* function returns no payloads.
C7_TransformFailureEndsChain ==
    \A i \in Raising(trace) :
        trace[i].op \in Transforms =>
            /\ i = Len(trace)
            /\ pc = "save"
            /\ qr_codes = << >>

\* C7 witnessed: enhance_image raised and the function returned
C7_Witness ==
    /\ Returned
    /\ Len(trace) = 2
    /\ trace[2].raised

\* C8: no handle of a document is open while a later document is processed
\* or while the report file is open, and the report file is open only while
\* its rows are written.
C8_HandlesReleased ==
    /\ \A d \in open_docs : d >= doc_i
    /\ report_open => open_docs = {}
    /\ report_open => pc = "write"

\* C9: the rows of the current image are, in order, the rows of the codes
\* whose save succeeded, each with the 1-based position of its code in the
\* decode result and the page of the image; a failed save omits that row
\* and nothing else, and every code is handled.
SavedPositions == {j \in 1..Len(saved) : saved[j]}

C9_SaveBestEffort ==
    pc = "save" =>
        /\ Len(saved) = qr_index
        /\ qr_index <= Len(qr_codes)
        /\ Len(qr_code_data_list) >= Cardinality(SavedPositions)
        /\ \A j \in SavedPositions :
             LET k == Len(qr_code_data_list)
                        - Cardinality({i \in SavedPositions : i >= j}) + 1
                 r == qr_code_data_list[k]
             IN  /\ r.pdf = pdf_file
                 /\ r.page = IntToStr(images[img_i])
                 /\ r.data = qr_codes[j]
                 /\ r.path = ImagePath(PdfNumber(pdf_file), images[img_i], j,
                                       qr_codes[j])

\* C9 witnessed: on a later image the save of the first code failed and the
\* save of the second succeeded
C9_Witness ==
    /\ pc = "save"
    /\ img_i = 2
    /\ saved = <<FALSE, TRUE>>

\* C10 as stated: when a decode or a conversion raises, nothing more is
\* called and the function returns no payloads.
C10_AbandonedYieldsNothing ==
    \A i \in Raising(trace) :
        trace[i].op = "decode" =>
            /\ i = Len(trace)
            /\ pc = "save"
            /\ qr_codes = << >>

\* C10 amended: when a decode or a conversion raises, nothing more is called
\* and the function returns the payloads converted before the exception:
\* none when decode raised or the first object failed.
C10_AbandonedKeepsCollected ==
    \A i \in Raising(trace) :
        trace[i].op = "decode" =>
            /\ i = Len(trace)
            /\ pc = "save"
            /\ qr_codes = ValidPrefix(trace[i].objs)

\* C10 witnessed: a conversion raised after a payload had been collected
C10_Witness ==
    /\ Returned
    /\ trace[Len(trace)].op = "decode"
    /\ trace[Len(trace)].raised
    /\ trace[Len(trace)].got # << >>

=============================================================================
